---- MODULE Spec2Model ----
(***************************************************************************)
(* A model of template001.py: the script that asks the Responses API for   *)
(* a completion, appends the first output item and a function_call_output  *)
(* to the input list, asks for a structured parse and prints the result;   *)
(* and of fetch_fruits, the tool handler the script defines.               *)
(*                                                                         *)
(* Two specifications:                                                     *)
(*   Spec / LiveSpec  the script from line 133 (the input list is built,   *)
(*                    the client constructed) to line 164;                 *)
(*   FetchSpec        one call of fetch_fruits (lines 93-113) on an        *)
(*                    argument payload drawn from ToolPayloads.            *)
(* A pc value "lineN" means: the statement starting at line N is next.     *)
(***************************************************************************)
EXTENDS Integers, Sequences, FiniteSets, TLC

\* The longest response_1.output list the model draws.
MaxBatch == 2

VARIABLES
    pc,               \* position of the script
    inputs,           \* the list `inputs` (the transcript)
    response_1,       \* what client.responses.create returned
    response_2,       \* what client.responses.parse returned
    raised,           \* the exception that propagated out of the script
    printed,          \* what line 164 printed
    inflight,         \* the request the client is blocked in, with its input
    createCalls,      \* number of client.responses.create calls issued
    parseCalls,       \* number of client.responses.parse calls issued
    fpc,              \* position inside fetch_fruits
    parsed_tool_call, \* its parameter (the .arguments text)
    args_as_json,     \* its locals: <<>> is unbound, <<v>> bound to v
    params,
    nutrition_name,
    url_complete,
    api_res,
    fetched,          \* its return value
    fraised,          \* the exception that propagated out of it
    getCalls          \* number of requests.get calls it issued

sessionVars == <<pc, inputs, response_1, response_2, raised, printed, inflight,
                 createCalls, parseCalls>>
fetchVars == <<fpc, parsed_tool_call, args_as_json, params, nutrition_name,
               url_complete, api_res, fetched, fraised, getCalls>>
vars == <<sessionVars, fetchVars>>

-----------------------------------------------------------------------------
(* json.dumps / json.loads: a JSON text is kept as a wrapper of the value  *)
(* it encodes, so a text never equals the value.                           *)
Dumps(v) == [json_text |-> v]
Loads(t) == t.json_text

-----------------------------------------------------------------------------
(* The tool declaration, lines 60-89.                                      *)
ToolName == "get_fruits"
NutritionEnum == {"sugar", "protein", "fat", "carbohydrates", "calories"}
Required == {"nutrition_name", "min_value", "max_value"}

\* tools[0]["parameters"]: every required key, no other key, the name in the enum.
SatisfiesSchema(p) ==
    /\ p.keys = Required
    /\ p.nutrition_name \in NutritionEnum

(* Argument payloads: a JSON object with a subset of the declared keys.    *)
(* A key that is absent carries a default no code path reads.              *)
Payload(K, n, lo, hi) ==
    [keys |-> K,
     nutrition_name |-> IF "nutrition_name" \in K THEN n ELSE "",
     min_value |-> IF "min_value" \in K THEN lo ELSE 0,
     max_value |-> IF "max_value" \in K THEN hi ELSE 0]

ToolPayloads ==
    {Payload(K, n, lo, hi) :
        K \in SUBSET Required, n \in NutritionEnum \cup {"fiber"},
        lo \in {0, 5}, hi \in {0, 5}}

\* The payloads the completion service puts in a function call of the session.
SessionPayloads ==
    {Payload(Required, "sugar", 0, 5),
     Payload(Required, "fiber", 0, 5),
     Payload({"nutrition_name", "min_value"}, "sugar", 0, 0)}

-----------------------------------------------------------------------------
(* The input list, lines 117-126.                                          *)
SeedMessages ==
    <<[type |-> "message", role |-> "developer",
       content |-> "I am operating a system that is designed to provide responses to users within a defined scope."],
      [type |-> "message", role |-> "user",
       content |-> "This should be a request to the system that is within the scope of its design."]>>

(* What client.responses.create can return in response.output: function    *)
(* calls and assistant messages, the call_ids of one response distinct.    *)
CallIds == 1..MaxBatch
FunctionCalls ==
    {[type |-> "function_call", call_id |-> c, name |-> n, arguments |-> Dumps(a)] :
        c \in CallIds, n \in {ToolName, "get_weather"}, a \in SessionPayloads}
OutputMessages ==
    {[type |-> "message", role |-> "assistant", content |-> "final answer"]}
OutputItems == FunctionCalls \cup OutputMessages

IsFunctionCall(item) == item.type = "function_call"

Outputs ==
    {out \in UNION {[1..n -> OutputItems] : n \in 0..MaxBatch} :
        \A i, j \in DOMAIN out :
            (i # j /\ IsFunctionCall(out[i]) /\ IsFunctionCall(out[j]))
                => out[i].call_id # out[j].call_id}

\* What client.responses.parse can return: the text parsed into ExampleModels,
\* or a further function call, for which output_parsed is None.
ParseResponses ==
    {[kind |-> "message", output_parsed |-> "ExampleModels"],
     [kind |-> "function_call", output_parsed |-> "None"]}

NoResponse1 == [status |-> "unset", output |-> <<>>]
NoResponse2 == [kind |-> "unset", output_parsed |-> "None"]
NoException == [kind |-> "none", line |-> 0]
NoRequest == [op |-> "none", input |-> <<>>]

\* The failures of the two service calls: the client's APIError, and for parse
\* pydantic's ValidationError when the text does not fit ExampleModels.
CreateErrors == {"APIError"}
ParseErrors == {"APIError", "ValidationError"}

\* The argument of json.dumps at line 151.
PlaceholderOutput == "output of the method that executed the function call"

-----------------------------------------------------------------------------
(* The script, lines 133-164.                                              *)

\* An uncaught exception ends the script.
Raise(kind, line) ==
    /\ pc' = "raised"
    /\ raised' = [kind |-> kind, line |-> line]

\* Line 133: client.responses.create(input=inputs, tools=tools) is issued.
CallCreate ==
    /\ pc = "line133"
    /\ pc' = "awaiting_create"
    /\ inflight' = [op |-> "create", input |-> inputs]
    /\ createCalls' = createCalls + 1
    /\ UNCHANGED <<inputs, response_1, response_2, raised, printed, parseCalls>>
    /\ UNCHANGED fetchVars

\* Line 133: the call returns and response_1 is bound.
ReturnCreate ==
    /\ pc = "awaiting_create"
    /\ \E out \in Outputs : response_1' = [status |-> "ok", output |-> out]
    /\ pc' = "line144"
    /\ inflight' = NoRequest
    /\ UNCHANGED <<inputs, response_2, raised, printed, createCalls, parseCalls>>
    /\ UNCHANGED fetchVars

\* Line 133: the call raises; nothing catches it.
RaiseCreate ==
    /\ pc = "awaiting_create"
    /\ \E k \in CreateErrors : Raise(k, 133)
    /\ inflight' = NoRequest
    /\ UNCHANGED <<inputs, response_1, response_2, printed, createCalls, parseCalls>>
    /\ UNCHANGED fetchVars

\* AppendCall with an emptiness guard that skips the tool step: an empty
\* output goes on to the parse call instead of raising.
AppendCallSkipEmpty ==
    /\ pc = "line144"
    /\ IF Len(response_1.output) = 0
       THEN /\ pc' = "line156"
            /\ UNCHANGED inputs
       ELSE /\ inputs' = Append(inputs, response_1.output[1])
            /\ pc' = "line148"
    /\ UNCHANGED <<response_1, response_2, raised, printed, inflight, createCalls, parseCalls>>
    /\ UNCHANGED fetchVars

\* Line 144: inputs.append(response_1.output[0]); IndexError on an empty list.
AppendCall ==
    /\ pc = "line144"
    /\ IF Len(response_1.output) = 0
       THEN /\ Raise("IndexError", 144)
            /\ UNCHANGED inputs
       ELSE /\ inputs' = Append(inputs, response_1.output[1])
            /\ pc' = "line148"
            /\ UNCHANGED raised
    /\ UNCHANGED <<response_1, response_2, printed, inflight, createCalls, parseCalls>>
    /\ UNCHANGED fetchVars

\* AppendOutput looping back to the completion call once the result is
\* appended, instead of going on to the parse call.
AppendOutputLoop ==
    /\ pc = "line148"
    /\ IF ~IsFunctionCall(response_1.output[1])
       THEN /\ Raise("AttributeError", 150)
            /\ UNCHANGED inputs
       ELSE /\ inputs' = Append(inputs,
                    [type |-> "function_call_output",
                     call_id |-> response_1.output[1].call_id,
                     output |-> Dumps(PlaceholderOutput)])
            /\ pc' = "line133"
            /\ UNCHANGED raised
    /\ UNCHANGED <<response_1, response_2, printed, inflight, createCalls, parseCalls>>
    /\ UNCHANGED fetchVars

\* AppendOutput storing the result over the function call entry instead of
\* appending it after.
AppendOutputOverwrite ==
    /\ pc = "line148"
    /\ IF ~IsFunctionCall(response_1.output[1])
       THEN /\ Raise("AttributeError", 150)
            /\ UNCHANGED inputs
       ELSE /\ inputs' = [inputs EXCEPT ![Len(inputs)] =
                    [type |-> "function_call_output",
                     call_id |-> response_1.output[1].call_id,
                     output |-> Dumps(PlaceholderOutput)]]
            /\ pc' = "line156"
            /\ UNCHANGED raised
    /\ UNCHANGED <<response_1, response_2, printed, inflight, createCalls, parseCalls>>
    /\ UNCHANGED fetchVars

\* Lines 148-152: the dict is built (a message has no call_id: AttributeError),
\* then appended. Its output is json.dumps of a constant.
AppendOutput ==
    /\ pc = "line148"
    /\ IF ~IsFunctionCall(response_1.output[1])
       THEN /\ Raise("AttributeError", 150)
            /\ UNCHANGED inputs
       ELSE /\ inputs' = Append(inputs,
                    [type |-> "function_call_output",
                     call_id |-> response_1.output[1].call_id,
                     output |-> Dumps(PlaceholderOutput)])
            /\ pc' = "line156"
            /\ UNCHANGED raised
    /\ UNCHANGED <<response_1, response_2, printed, inflight, createCalls, parseCalls>>
    /\ UNCHANGED fetchVars

\* Line 156: client.responses.parse(input=inputs, tools=tools,
\* text_format=ExampleModels) is issued.
CallParse ==
    /\ pc = "line156"
    /\ pc' = "awaiting_parse"
    /\ inflight' = [op |-> "parse", input |-> inputs]
    /\ parseCalls' = parseCalls + 1
    /\ UNCHANGED <<inputs, response_1, response_2, raised, printed, createCalls>>
    /\ UNCHANGED fetchVars

\* Line 156: the call returns and response_2 is bound.
ReturnParse ==
    /\ pc = "awaiting_parse"
    /\ \E r \in ParseResponses : response_2' = r
    /\ pc' = "line164"
    /\ inflight' = NoRequest
    /\ UNCHANGED <<inputs, response_1, raised, printed, createCalls, parseCalls>>
    /\ UNCHANGED fetchVars

\* RaiseParse with the exception caught and the parse call issued again.
RaiseParseRetry ==
    /\ pc = "awaiting_parse"
    /\ \E k \in ParseErrors : raised' = [kind |-> k, line |-> 156]
    /\ pc' = "line156"
    /\ inflight' = NoRequest
    /\ UNCHANGED <<inputs, response_1, response_2, printed, createCalls, parseCalls>>
    /\ UNCHANGED fetchVars

\* Line 156: the call raises; nothing catches it.
RaiseParse ==
    /\ pc = "awaiting_parse"
    /\ \E k \in ParseErrors : Raise(k, 156)
    /\ inflight' = NoRequest
    /\ UNCHANGED <<inputs, response_1, response_2, printed, createCalls, parseCalls>>
    /\ UNCHANGED fetchVars

\* PrintParsed asking for the parse again while output_parsed is None.
PrintParsedRetry ==
    /\ pc = "line164"
    /\ IF response_2.output_parsed = "None"
       THEN /\ pc' = "line156"
            /\ UNCHANGED printed
       ELSE /\ printed' = Append(printed, response_2.output_parsed)
            /\ pc' = "done"
    /\ UNCHANGED <<inputs, response_1, response_2, raised, inflight, createCalls, parseCalls>>
    /\ UNCHANGED fetchVars

\* Line 164: print(response_2.output_parsed); the script ends.
PrintParsed ==
    /\ pc = "line164"
    /\ printed' = Append(printed, response_2.output_parsed)
    /\ pc' = "done"
    /\ UNCHANGED <<inputs, response_1, response_2, raised, inflight, createCalls, parseCalls>>
    /\ UNCHANGED fetchVars

\* fetch_fruits is defined and never called by the script.
FetchIdle ==
    /\ fpc = "uncalled"
    /\ parsed_tool_call = Dumps(Payload({}, "", 0, 0))
    /\ args_as_json = <<>>
    /\ params = <<>>
    /\ nutrition_name = ""
    /\ url_complete = ""
    /\ api_res = <<>>
    /\ fetched = <<>>
    /\ fraised = NoException
    /\ getCalls = 0

SessionStart ==
    /\ pc = "line133"
    /\ inputs = SeedMessages
    /\ response_1 = NoResponse1
    /\ response_2 = NoResponse2
    /\ raised = NoException
    /\ printed = <<>>
    /\ inflight = NoRequest
    /\ createCalls = 0
    /\ parseCalls = 0

Init == SessionStart /\ FetchIdle

Next ==
    \/ CallCreate
    \/ ReturnCreate
    \/ RaiseCreate
    \/ AppendCall
    \/ AppendOutput
    \/ CallParse
    \/ ReturnParse
    \/ RaiseParse
    \/ PrintParsed

Spec == Init /\ [][Next]_vars

\* The script is one sequential control flow and both client calls return or
\* raise: a step that can be taken is taken.
LiveSpec == Spec /\ WF_vars(Next)

Terminal == {"done", "raised"}

-----------------------------------------------------------------------------
(* fetch_fruits, lines 93-113.                                             *)
fruit_api_url == "https://www.fruityvice.com/api/fruit"

\* What requests.get can return at line 111: the matching fruits, the API's
\* JSON error object, or a body that is not JSON.
ApiResponses ==
    {[status_code |-> 200, is_json |-> TRUE, body |-> "fruit records"],
     [status_code |-> 404, is_json |-> TRUE, body |-> "error object"],
     [status_code |-> 502, is_json |-> FALSE, body |-> "html page"]}

\* An uncaught exception leaves fetch_fruits.
FRaise(kind, line) ==
    /\ fpc' = "raised"
    /\ fraised' = [kind |-> kind, line |-> line]

\* Line 102: args_as_json = json.loads(parsed_tool_call.arguments).
FetchLoads ==
    /\ fpc = "line102"
    /\ args_as_json' = <<Loads(parsed_tool_call)>>
    /\ fpc' = "line104"
    /\ UNCHANGED <<parsed_tool_call, params, nutrition_name, url_complete,
                   api_res, fetched, fraised, getCalls>>
    /\ UNCHANGED sessionVars

\* Lines 104-107: params = {"min": args["min_value"], "max": args["max_value"]};
\* the subscripts are evaluated in that order, KeyError on an absent key.
FetchParams ==
    /\ fpc = "line104"
    /\ LET a == args_as_json[1] IN
       IF "min_value" \notin a.keys
       THEN FRaise("KeyError", 105) /\ UNCHANGED params
       ELSE IF "max_value" \notin a.keys
       THEN FRaise("KeyError", 106) /\ UNCHANGED params
       ELSE /\ params' = <<[min |-> a.min_value, max |-> a.max_value]>>
            /\ fpc' = "line108"
            /\ UNCHANGED fraised
    /\ UNCHANGED <<parsed_tool_call, args_as_json, nutrition_name, url_complete,
                   api_res, fetched, getCalls>>
    /\ UNCHANGED sessionVars

\* Lines 108-109: nutrition_name = args["nutrition_name"], and the URL is
\* built from it; the name is not compared with the declared enum.
FetchUrl ==
    /\ fpc = "line108"
    /\ LET a == args_as_json[1] IN
       IF "nutrition_name" \notin a.keys
       THEN FRaise("KeyError", 108) /\ UNCHANGED <<nutrition_name, url_complete>>
       ELSE /\ nutrition_name' = a.nutrition_name
            /\ url_complete' = fruit_api_url \o "/" \o a.nutrition_name
            /\ fpc' = "line111"
            /\ UNCHANGED fraised
    /\ UNCHANGED <<parsed_tool_call, args_as_json, params, api_res, fetched, getCalls>>
    /\ UNCHANGED sessionVars

\* Line 111: api_res = requests.get(url_complete, params=params); the request
\* is sent, and answers or raises ConnectionError.
FetchGet ==
    /\ fpc = "line111"
    /\ getCalls' = getCalls + 1
    /\ \/ /\ \E r \in ApiResponses : api_res' = <<r>>
          /\ fpc' = "line113"
          /\ UNCHANGED fraised
       \/ /\ FRaise("ConnectionError", 111)
          /\ UNCHANGED api_res
    /\ UNCHANGED <<parsed_tool_call, args_as_json, params, nutrition_name,
                   url_complete, fetched>>
    /\ UNCHANGED sessionVars

\* Line 113: return api_res.json(); raise_for_status is commented out, so an
\* error status with a JSON body is returned like a result.
FetchReturn ==
    /\ fpc = "line113"
    /\ IF api_res[1].is_json
       THEN /\ fetched' = <<api_res[1].body>>
            /\ fpc' = "returned"
            /\ UNCHANGED fraised
       ELSE FRaise("JSONDecodeError", 113) /\ UNCHANGED fetched
    /\ UNCHANGED <<parsed_tool_call, args_as_json, params, nutrition_name,
                   url_complete, api_res, getCalls>>
    /\ UNCHANGED sessionVars

\* fetch_fruits is entered with the arguments text of a tool call.
FetchInit ==
    /\ SessionStart
    /\ fpc = "line102"
    /\ parsed_tool_call \in {Dumps(p) : p \in ToolPayloads}
    /\ args_as_json = <<>>
    /\ params = <<>>
    /\ nutrition_name = ""
    /\ url_complete = ""
    /\ api_res = <<>>
    /\ fetched = <<>>
    /\ fraised = NoException
    /\ getCalls = 0

FetchNext ==
    \/ FetchLoads
    \/ FetchParams
    \/ FetchUrl
    \/ FetchGet
    \/ FetchReturn

FetchSpec == FetchInit /\ [][FetchNext]_vars

-----------------------------------------------------------------------------
(* Properties.                                                             *)

IsPrefix(s, t) == Len(s) <= Len(t) /\ SubSeq(t, 1, Len(s)) = s

\* A completion turn that requests tools, and one that is a final answer.
ToolCallTurn(out) == Len(out) > 0 /\ \A i \in DOMAIN out : IsFunctionCall(out[i])
FinalAnswerTurn(out) == Len(out) > 0 /\ \A i \in DOMAIN out : ~IsFunctionCall(out[i])

\* The turns the service has answered so far.
Turn1Tool == response_1.status = "ok" /\ ToolCallTurn(response_1.output)
Turn1Final == response_1.status = "ok" /\ FinalAnswerTurn(response_1.output)
Turn1Empty == response_1.status = "ok" /\ response_1.output = <<>>
Turn2Tool == response_2.kind = "function_call"
Turn2Final == response_2.kind = "message"

\* One of the two service calls failed.
ServiceFailure == raised.kind # "none" /\ raised.line \in {133, 156}

\* The function call entry a function_call_output entry answers.
RequestOf(i) ==
    inputs[CHOOSE j \in 1..(i - 1) :
        IsFunctionCall(inputs[j]) /\ inputs[j].call_id = inputs[i].call_id]
IsResult(i) == inputs[i].type = "function_call_output"

\* The registry error invoking a request gives: "none" when it is valid.
InvocationError(req) ==
    IF req.name # ToolName THEN "UnknownToolError"
    ELSE IF ~SatisfiesSchema(Loads(req.arguments)) THEN "InvalidArgumentsError"
    ELSE "none"

C2_NoCap ==
    /\ raised.kind # "IterationLimitExceededError"
    /\ (Turn1Tool /\ pc \in Terminal) =>
          /\ createCalls = 1
          /\ parseCalls = 1
          /\ raised.kind \in {"none"} \cup ParseErrors
          /\ (raised.kind = "none" => pc = "done")
          /\ ((pc = "done" /\ Turn2Tool) => printed = <<"None">>)

C3_Claim ==
    inflight.op = "parse" =>
        \A k \in DOMAIN response_1.output :
            IsFunctionCall(response_1.output[k]) =>
                \E i \in DOMAIN inflight.input :
                    /\ inflight.input[i] = response_1.output[k]
                    /\ Cardinality({j \in (i + 1)..Len(inflight.input) :
                            /\ inflight.input[j].type = "function_call_output"
                            /\ inflight.input[j].call_id = response_1.output[k].call_id}) = 1

(* C4, as claimed: when invoking a request fails (unregistered tool name,  *)
(* arguments outside the schema), the text of its result entry is the      *)
(* serialized failure.                                                     *)
C4_Claim ==
    \A i \in DOMAIN inputs :
        (IsResult(i) /\ InvocationError(RequestOf(i)) # "none")
            => inputs[i].output = Dumps(InvocationError(RequestOf(i)))

(* C5, as claimed: for a payload that misses a required field or names a   *)
(* nutrition outside the enum, get_fruits fails (any exception is taken    *)
(* for the failure) and the external request is never sent.                *)
C5_Claim ==
    ~SatisfiesSchema(Loads(parsed_tool_call))
        => (getCalls = 0 /\ fpc # "returned")

(* C6, as claimed: for a request to the registered tool with arguments     *)
(* that satisfy the schema, the handler was invoked with those arguments   *)
(* and the result entry holds the serialization of what it returned.       *)
C6_Claim ==
    \A i \in DOMAIN inputs :
        (IsResult(i) /\ InvocationError(RequestOf(i)) = "none")
            => /\ fpc = "returned"
               /\ parsed_tool_call = RequestOf(i).arguments
               /\ inputs[i].output = Dumps(fetched[1])

(* C7: the transcript is append-only: every step leaves the old transcript *)
(* a prefix of the new one, the seed messages stay its first entries, and  *)
(* it does not change while a completion or parse call is in flight, the   *)
(* call holding the transcript as it is.                                   *)
C7_AppendOnly ==
    /\ [](IsPrefix(SeedMessages, inputs))
    /\ [](inflight.op # "none" => inflight.input = inputs)
    /\ [][/\ IsPrefix(inputs, inputs')
          /\ (inflight.op # "none" => inputs' = inputs)]_vars

C7_Witness ==
    inflight.op = "parse" /\ Len(inputs) = Len(SeedMessages) + 2

(* C8, as claimed: when a service call fails the session does not raise:   *)
(* it ends having returned a failure result.                               *)
C8_Original == ServiceFailure => (pc # "raised" /\ Len(printed) = 1)

(* C8, amended: when the completion call or the parse call fails, the      *)
(* exception propagates uncaught and the script stops there: nothing is    *)
(* printed or returned, and no completion or parse call is issued or       *)
(* retried afterwards.                                                     *)
C8_FailureIsUncaught ==
    ServiceFailure =>
        /\ pc = "raised"
        /\ printed = <<>>
        /\ inflight = NoRequest
        /\ ~ENABLED Next
        /\ createCalls = 1
        /\ parseCalls = (IF raised.line = 156 THEN 1 ELSE 0)

C8_Witness ==
    pc = "raised" /\ raised = [kind |-> "ValidationError", line |-> 156]

(* C9, as claimed: after a final-answer turn no function call or           *)
(* function_call_output entry is appended, the parse call is made, and it  *)
(* is made over the transcript as it was before the turn.                  *)
C9_Claim ==
    Turn1Final =>
        /\ \A i \in DOMAIN inputs :
               inputs[i].type \notin {"function_call", "function_call_output"}
        /\ (inflight.op = "parse" => inflight.input = SeedMessages)
        /\ (pc \in Terminal => parseCalls = 1)

\* The kind a failure of the completion call has in the script.
CompletionServiceError == "APIError"

(* C10, as claimed: an empty output ends the session with                  *)
(* CompletionServiceError, nothing appended and no parse call.             *)
C10_Original ==
    (Turn1Empty /\ pc \in Terminal)
        => /\ raised.kind = CompletionServiceError
           /\ inputs = SeedMessages
           /\ parseCalls = 0

(* C10, amended: an empty output ends the session with an uncaught         *)
(* IndexError at line 144, nothing appended and no parse call.             *)
C10_EmptyOutputIndexError ==
    Turn1Empty =>
        /\ inputs = SeedMessages
        /\ parseCalls = 0
        /\ pc \in {"line144", "raised"}
        /\ (pc = "raised" => raised = [kind |-> "IndexError", line |-> 144])

C10_Witness ==
    Turn1Empty /\ pc = "raised" /\ raised.kind = "IndexError"

====
